---- MODULE Spec2Model ----
(***************************************************************************)
(* A model of the audio_fx_live engine core: AudioEngine (core/engine.py), *)
(* EffectBase (core/effect.py) and VisualizerBase (core/visualizer.py).    *)
(*                                                                         *)
(* Control-plane contexts call start()/stop() statement by statement, so   *)
(* that their races on `running` and `stream` are visible.  Every stream   *)
(* the engine opens has its own audio context, which runs _audio_callback  *)
(* statement by statement.  The audio binding (sounddevice.Stream) is      *)
(* modelled by what its calls do to a stream: open, start, stop, close.    *)
(***************************************************************************)
EXTENDS Integers, Sequences, FiniteSets, TLC

\* ----------------------------------------------------------------- bounds
\* Streams the engine may open in one run (each start() past its guard opens one).
MaxStreams == 2
\* Block callbacks the binding delivers in one run.
MaxBlocks == 2
\* Longest effect chain built by add_effect.
MaxChain == 2
\* Largest max_queue_size a sink is constructed with (0 is Queue's "infinite").
MaxCap == 1
\* Entries of the engine's visualizer list.
MaxViz == 1

\* ------------------------------------------------------ program constants
buffer_size == 512
sample_rate == 48000

\* The control-plane contexts, the effect objects and the sink objects.
Ctl == {"ui", "cli"}
FxId == {"A", "B"}
SinkId == {"viz"}
StreamId == 1..MaxStreams

\* EffectBase.name of each effect object: both are SimpleDelay objects, as
\* delay1 and delay2 of test_effect_chain are.
Names == {"SimpleDelay", "SimpleReverb"}
name == [e \in FxId |-> "SimpleDelay"]

\* No query has returned yet.
NoResult == [call |-> "none"]

VARIABLES
    running,        \* AudioEngine.running
    stream,         \* AudioEngine.stream: 0 is None, else the Stream object
    streamState,    \* the binding's state of each Stream object
    latency_ms,     \* AudioEngine.latency_ms, in microseconds
    total_frames,   \* AudioEngine.total_frames
    underruns,      \* AudioEngine.underruns
    effects,        \* AudioEngine.effects
    effect_lock,    \* AudioEngine.effect_lock: 0 is free, else the holder
    visualizers,    \* AudioEngine.visualizers
    enabled,        \* EffectBase.enabled of each effect object
    fxCalls,        \* how often each effect's process ran (its filter state's age)
    cap,            \* max_queue_size each sink was constructed with
    queue,          \* VisualizerBase.queue of each sink
    pcC,            \* where each control-plane context is in start()/stop()
    pcA,            \* where each stream's audio context is in _audio_callback
    audio,          \* the callback's local `audio`
    idx,            \* the callback's position in the list it iterates
    outdata,        \* the output block the binding handed to the callback
    status,         \* the callback's `status` argument (the binding's flags)
    blocks,         \* callbacks the binding has invoked so far
    calls,          \* history: each __call__ made on the current block
    snapshot,       \* history: the chain as it was when the guard was acquired
    escaped,        \* history: an error has propagated out of a callback
    stopDone,       \* history: a stop() of a running engine returned, no start() since
    raised,         \* history: an error has propagated out of a chain mutator
    result,         \* what the latest get_effect / list_effects call returned
    fx,             \* an effect object on its own: its parameters and filter state
    twin,           \* a second object built by the same constructor call
    signal,         \* the input fx is fed, one sequence of samples per channel
    twinSignal,     \* the input twin is fed
    fed,            \* how many frames of the input have been fed
    out,            \* what fx has returned so far, block after block
    twinOut,        \* what twin has returned so far
    fx_enabled,     \* EffectBase.enabled of fx
    last            \* history: the latest call made on fx, and what it returned

vars == <<running, stream, streamState, latency_ms, total_frames, underruns,
          effects, effect_lock, visualizers, enabled, fxCalls, cap, queue,
          pcC, pcA, audio, idx, outdata, status, blocks,
          calls, snapshot, escaped, stopDone, raised, result,
          fx, twin, signal, twinSignal, fed, out, twinOut, fx_enabled, last>>

engineVars == <<running, stream, streamState, latency_ms>>
metricVars == <<total_frames, underruns>>
chainVars == <<effects, effect_lock, enabled, fxCalls>>
sinkVars == <<visualizers, cap, queue>>
ctlVars == <<pcC, stopDone, raised, result>>
audioVars == <<pcA, audio, idx, outdata, status, blocks, calls, snapshot, escaped>>
benchVars == <<fx, twin, signal, twinSignal, fed, out, twinOut, fx_enabled, last>>
feedVars == <<twin, signal, twinSignal, fed, out, twinOut, fx_enabled, last>>
coreVars == <<engineVars, metricVars, chainVars, sinkVars, ctlVars, audioVars>>

\* ------------------------------------------------------------ audio blocks
\* A block is known by its number, its frame count and the effects whose
\* process has transformed it, in order.
Block(n, f, by) == [id |-> n, frames |-> f, fx |-> by]
NoBlock == Block(0, 0, <<>>)

\* The status flags the binding may report with a block.
StatusFlags == {"input_underflow", "input_overflow", "output_underflow", "output_overflow"}
StatusSet == {{}} \cup {{f} : f \in StatusFlags}

\* What one run of an effect's process may do: return a block of the same
\* shape, raise, or return a block of another frame count.
Outcomes == {"ok", "raise", "longer"}

Range(s) == {s[i] : i \in 1..Len(s)}

\* list.remove(x): drops the first element equal to x.
RemoveFirst(s, x) ==
    LET i == CHOOSE k \in 1..Len(s) : s[k] = x /\ \A j \in 1..(k - 1) : s[j] # x
    IN  SubSeq(s, 1, i - 1) \o SubSeq(s, i + 1, Len(s))

\* ------------------------------------------------------------- EffectBase
\* SimpleDelay.process and its siblings, as the chain sees them: the block
\* comes back transformed by effect e, with the frame count process returns.
process(e, a, o) ==
    Block(a.id,
          IF o = "longer" THEN a.frames + 1 ELSE a.frames,
          Append(a.fx, e))

\* EffectBase.__call__ without its enabled check.
EffectCall_IgnoresEnabled(e, a, en, o) ==
    IF o = "raise" THEN a ELSE process(e, a, o)

\* EffectBase.__call__ whose handler returns nothing instead of the block.
EffectCall_DropsOnRaise(e, a, en, o) ==
    IF ~en THEN a
    ELSE IF o = "raise" THEN NoBlock
    ELSE process(e, a, o)

\* EffectBase.__call__: a disabled effect returns the block it was given,
\* and so does one whose process raises; otherwise the result of process.
EffectCall(e, a, en, o) ==
    IF ~en THEN a
    ELSE IF o = "raise" THEN a
    ELSE process(e, a, o)

\* Whether EffectBase.__call__ reaches self.process at all.
ProcessInvoked(en) == en

\* --------------------------------------------------------- VisualizerBase
\* queue.Queue.full(): a maxsize <= 0 never fills.
Full(q, n) == n > 0 /\ Len(q) >= n

\* A put that waits for a free slot, as Queue.put(block=True) does.
PutReturns_WhenSlotFree(q, n) == ~Full(q, n)

\* `self.queue.put_nowait(...)` returns or raises Full at once, whatever the
\* queue holds.
PutReturns(q, n) == TRUE

\* VisualizerBase.push_audio: put_nowait of a copy; Full is swallowed.
push_audio(q, n, a) == IF Full(q, n) THEN q ELSE Append(q, a)

\* ------------------------------------------------- the effect variants
\* Parameters, coefficients and samples are fixed-point numbers in
\* hundredths: Scale stands for 1.0.
Scale == 100

\* The sample_rate the effect objects are constructed with: low, so that
\* delays of a few frames arise from small arguments.
fx_rate == 100

\* int(n / d): Python's int() truncates toward zero.
int(n, d) == IF n >= 0 THEN n \div d ELSE -((-n) \div d)

\* np.clip(x, lo, hi)
clip(x, lo, hi) == IF x < lo THEN lo ELSE IF x > hi THEN hi ELSE x

\* c * x for a coefficient c in hundredths.
Mul(c, x) == (c * x) \div Scale

\* A filter state that has not been initialised yet (`None`); an
\* initialised state always has at least one entry.
None == <<>>

\* No object: the constructor raised.
Failed == [kind |-> "failed"]

\* A Delay whose filter taps the sample one frame early.
SimpleDelay_TapEarly(delay_ms, feedback, wet) ==
    LET D == int(delay_ms * fx_rate, 1000)
        fb == clip(feedback, 0, 99)
    IN  [kind |-> "delay",
         delay_ms |-> delay_ms,
         feedback |-> fb,
         wet |-> clip(wet, 0, Scale),
         delay_samples |-> D,
         b |-> [i \in 1..(D + 1) |-> IF i = D THEN Scale ELSE 0],
         a |-> [i \in 1..(D + 1) |->
                   IF i = D + 1 THEN -fb ELSE IF i = 1 THEN Scale ELSE 0],
         zi_l |-> None,
         zi_r |-> None]

\* SimpleDelay.__init__ and _init_filter_coefficients.  np.zeros(D + 1)
\* raises for D < -1 and b[D] = 1.0 raises on the empty array for D = -1.
SimpleDelay(delay_ms, feedback, wet) ==
    LET D == int(delay_ms * fx_rate, 1000)
        fb == clip(feedback, 0, 99)
    IN  IF D < 0 THEN Failed
        ELSE [kind |-> "delay",
              delay_ms |-> delay_ms,
              feedback |-> fb,
              wet |-> clip(wet, 0, Scale),
              delay_samples |-> D,
              b |-> [i \in 1..(D + 1) |-> IF i = D + 1 THEN Scale ELSE 0],
              a |-> [i \in 1..(D + 1) |->
                        IF i = D + 1 THEN -fb ELSE IF i = 1 THEN Scale ELSE 0],
              zi_l |-> None,
              zi_r |-> None]

\* SimpleReverb's delay tables, scaled down from base_delays (eight comb
\* delays of 1116..1617 frames) and allpass_delays (225..556 frames).
BaseDelay == 2
AllpassDelay == 1
base_delays == <<BaseDelay>>
allpass_delays == <<AllpassDelay>>

\* `int(d * (0.5 + room_size * 1.5))`
comb_delay(d, room_size) == int(d * (Scale + 3 * room_size), 2 * Scale)

\* `feedback = 0.84` and `allpass_g = 0.5` in _init_filters
comb_feedback == 84
allpass_g == 50

\* SimpleReverb.__init__ and _init_filters.  comb_delays is computed from
\* the room_size argument, not from self.room_size; a negative delay makes
\* np.zeros or b[delay] raise.
SimpleReverb(room_size, damping, wet) ==
    LET comb_delays == [j \in 1..Len(base_delays) |-> comb_delay(base_delays[j], room_size)]
        damping_coef == clip(damping, 0, Scale)
    IN  IF \E j \in 1..Len(base_delays) : comb_delays[j] < 0 THEN Failed
        ELSE [kind |-> "reverb",
              room_size |-> clip(room_size, 0, Scale),
              damping |-> damping_coef,
              wet |-> clip(wet, 0, Scale),
              comb_delays |-> comb_delays,
              comb_b |-> [j \in 1..Len(base_delays) |->
                            [i \in 1..(comb_delays[j] + 1) |->
                                IF i = comb_delays[j] + 1 THEN Scale ELSE 0]],
              comb_a |-> [j \in 1..Len(base_delays) |->
                            [i \in 1..(comb_delays[j] + 2) |->
                                IF i = comb_delays[j] + 2 THEN -Mul(comb_feedback, damping_coef)
                                ELSE IF i = comb_delays[j] + 1
                                     THEN -Mul(comb_feedback, Scale - damping_coef)
                                ELSE IF i = 1 THEN Scale ELSE 0]],
              comb_zi |-> [j \in 1..Len(base_delays) |-> None],
              allpass_b |-> [j \in 1..Len(allpass_delays) |->
                            [i \in 1..(allpass_delays[j] + 1) |->
                                IF i = allpass_delays[j] + 1 THEN Scale
                                ELSE IF i = 1 THEN -allpass_g ELSE 0]],
              allpass_a |-> [j \in 1..Len(allpass_delays) |->
                            [i \in 1..(allpass_delays[j] + 1) |->
                                IF i = allpass_delays[j] + 1 THEN -allpass_g
                                ELSE IF i = 1 THEN Scale ELSE 0]],
              allpass_zi |-> [j \in 1..Len(allpass_delays) |-> None]]

\* SimpleDistortion.__init__
SimpleDistortion(drive, tone, level) ==
    [kind |-> "distortion",
     drive |-> clip(drive, Scale, 20 * Scale),
     tone |-> clip(tone, 0, Scale),
     level |-> clip(level, 0, Scale),
     zi_l |-> None,
     zi_r |-> None]

\* SimpleChorus.__init__: max_delay_samples = int(0.05 * sample_rate),
\* base_delay_samples = int(0.02 * sample_rate).
SimpleChorus(rate, depth, wet) ==
    [kind |-> "chorus",
     rate |-> clip(rate, 10, 10 * Scale),
     depth |-> clip(depth, 0, Scale),
     wet |-> clip(wet, 0, Scale),
     delay_buffer_l |-> [i \in 1..int(5 * fx_rate, 100) |-> 0],
     delay_buffer_r |-> [i \in 1..int(5 * fx_rate, 100) |-> 0],
     write_pos |-> 0,
     lfo_phase |-> 0,
     base_delay_samples |-> int(2 * fx_rate, 100)]

\* ---------------------------------------------------------- filter math
\* F applied to the value of v: v is evaluated once, as an assignment to a
\* local variable is, however often F uses it.
Bind(v, F(_)) == CHOOSE r \in {F(x) : x \in {v}} : TRUE

\* An audio array is a sequence of channels, each a sequence of samples:
\* <<L>> for shape (frames,) or (frames, 1), <<L, R>> for (frames, 2).
Frames(block) == Len(block[1])

\* Coefficient i of a coefficient vector padded with zeros.
Coef(c, i) == IF i <= Len(c) THEN c[i] ELSE 0

\* scipy.signal.lfilter_zi(b, a) * 0: a zero state of length
\* max(len(a), len(b)) - 1.  lfilter_zi raises ValueError when `a` has fewer
\* than two coefficients (linalg.companion) or a zero leading one.
lfilter_zi_raises(b, a) == Len(a) < 2 \/ a[1] = 0

lfilter_zi(b, a) ==
    [i \in 1..((IF Len(a) > Len(b) THEN Len(a) ELSE Len(b)) - 1) |-> 0]

\* One sample through scipy.signal.lfilter's recurrence (transposed direct
\* form II, a[0] = 1): the output sample and the next state.
lfilter_step(b, a, x, z) ==
    LET n == Len(z)
        y == Mul(Coef(b, 1), x) + (IF n >= 1 THEN z[1] ELSE 0)
    IN  [y |-> y,
         z |-> [i \in 1..n |->
                   (IF i < n THEN z[i + 1] ELSE 0)
                   + Mul(Coef(b, i + 1), x) - Mul(Coef(a, i + 1), y)]]

\* scipy.signal.lfilter(b, a, x, zi=zi): the filtered samples and the final
\* state.
RECURSIVE lfilter_from(_, _, _, _, _)
lfilter_from(b, a, x, z, y) ==
    IF x = <<>> THEN [y |-> y, zf |-> z]
    ELSE Bind(lfilter_step(b, a, Head(x), z),
              LAMBDA s : lfilter_from(b, a, Tail(x), s.z, Append(y, s.y)))

lfilter(b, a, x, zi) == lfilter_from(b, a, x, zi, <<>>)

\* The mix alone, were process to return it without np.clip.
Mix_Unclipped(wet, dry, delayed) ==
    [i \in 1..Len(dry) |-> Mul(Scale - wet, dry[i]) + Mul(wet, delayed[i])]

\* `(1 - wet) * dry + wet * delayed`, then np.clip(., -1.0, 1.0), per sample.
Mix(wet, dry, delayed) ==
    [i \in 1..Len(dry) |->
        clip(Mul(Scale - wet, dry[i]) + Mul(wet, delayed[i]), -Scale, Scale)]

\* What a call of process yields: the object with its new filter state, the
\* returned audio, and whether the call raised instead of returning.
Returned(o, y) == [o |-> o, y |-> y, raises |-> FALSE]
Raised(o) == [o |-> o, y |-> <<>>, raises |-> TRUE]

\* SimpleDelay.process
SimpleDelay_process(o, block) ==
    IF lfilter_zi_raises(o.b, o.a) THEN Raised(o)
    ELSE LET zi_l == IF o.zi_l = None THEN lfilter_zi(o.b, o.a) ELSE o.zi_l
             zi_r == IF o.zi_r = None THEN lfilter_zi(o.b, o.a) ELSE o.zi_r
             right == IF Len(block) > 1 THEN lfilter(o.b, o.a, block[2], zi_r)
                      ELSE [y |-> <<>>, zf |-> zi_r]
             mixed(l, r) ==
                 Returned([o EXCEPT !.zi_l = l.zf, !.zi_r = r.zf],
                          IF Len(block) > 1
                          THEN <<Mix(o.wet, block[1], l.y), Mix(o.wet, block[2], r.y)>>
                          ELSE <<Mix(o.wet, block[1], l.y)>>)
         IN  Bind(lfilter(o.b, o.a, block[1], zi_l),
                  LAMBDA l : Bind(right, LAMBDA r : mixed(l, r)))

\* np.tanh, as a saturating odd map x / (1 + |x|).
tanh(x) == int(Scale * x, Scale + (IF x < 0 THEN -x ELSE x))

\* SimpleDistortion._get_filter_coefficients: the one-pole lowpass for the
\* current tone.
filter_coef(o) == 10 + Mul(80, o.tone)

\* SimpleDistortion.process
SimpleDistortion_process(o, block) ==
    LET b == <<filter_coef(o)>>
        a == <<Scale, -(Scale - filter_coef(o))>>
        zi_l == IF o.zi_l = None THEN lfilter_zi(b, a) ELSE o.zi_l
        zi_r == IF o.zi_r = None THEN lfilter_zi(b, a) ELSE o.zi_r
        distorted(x) == [i \in 1..Len(x) |-> tanh(Mul(o.drive, x[i]))]
        levelled(y) == [i \in 1..Len(y) |-> clip(Mul(o.level, y[i]), -Scale, Scale)]
        right == IF Len(block) > 1 THEN lfilter(b, a, distorted(block[2]), zi_r)
                 ELSE [y |-> <<>>, zf |-> zi_r]
        output(l, r) ==
            Returned([o EXCEPT !.zi_l = l.zf, !.zi_r = r.zf],
                     IF Len(block) > 1 THEN <<levelled(l.y), levelled(r.y)>>
                     ELSE <<levelled(l.y)>>)
    IN  Bind(lfilter(b, a, distorted(block[1]), zi_l),
             LAMBDA l : Bind(right, LAMBDA r : output(l, r)))

\* The parallel comb filters of SimpleReverb.process on one channel, from
\* comb j on: acc carries self.comb_zi and comb_sum.
RECURSIVE comb_bank(_, _, _, _)
comb_bank(o, x, j, acc) ==
    IF j > Len(o.comb_delays) THEN acc
    ELSE LET zi == IF acc.zi[j] = None
                   THEN lfilter_zi(o.comb_b[j], o.comb_a[j]) ELSE acc.zi[j]
             added(f) == [zi |-> [acc.zi EXCEPT ![j] = f.zf],
                          sum |-> [i \in 1..Len(x) |-> acc.sum[i] + f.y[i]]]
         IN  Bind(lfilter(o.comb_b[j], o.comb_a[j], x, zi),
                  LAMBDA f : Bind(added(f), LAMBDA next : comb_bank(o, x, j + 1, next)))

\* The series all-pass filters on one channel, from filter j on: acc carries
\* self.allpass_zi and allpass_out.
RECURSIVE allpass_chain(_, _, _)
allpass_chain(o, j, acc) ==
    IF j > Len(o.allpass_zi) THEN acc
    ELSE LET zi == IF acc.zi[j] = None
                   THEN lfilter_zi(o.allpass_b[j], o.allpass_a[j]) ELSE acc.zi[j]
         IN  Bind(lfilter(o.allpass_b[j], o.allpass_a[j], acc.y, zi),
                  LAMBDA f : allpass_chain(o, j + 1,
                                           [zi |-> [acc.zi EXCEPT ![j] = f.zf], y |-> f.y]))

\* The body of `for ch in range(block.shape[1])` for one channel x: every
\* filter starts from self.comb_zi[j] / self.allpass_zi[j] as the previous
\* channel left it, and stores its final state there.
reverb_channel(o, x) ==
    LET comb_sum(combs) == [i \in 1..Len(x) |-> combs.sum[i] \div Len(o.comb_delays)]
        diffused(combs) ==
            Bind(allpass_chain(o, 1, [zi |-> o.allpass_zi, y |-> comb_sum(combs)]),
                 LAMBDA allpass :
                     Returned([o EXCEPT !.comb_zi = combs.zi, !.allpass_zi = allpass.zi],
                              Mix(o.wet, x, allpass.y)))
    IN  Bind(comb_bank(o, x, 1, [zi |-> o.comb_zi, sum |-> [i \in 1..Len(x) |-> 0]]),
             LAMBDA combs : diffused(combs))

\* SimpleReverb.process
SimpleReverb_process(o, block) ==
    IF \E j \in 1..Len(o.comb_delays) : lfilter_zi_raises(o.comb_b[j], o.comb_a[j])
    THEN Raised(o)
    ELSE Bind(reverb_channel(o, block[1]),
              LAMBDA l : IF Len(block) > 1
                         THEN Bind(reverb_channel(l.o, block[2]),
                                   LAMBDA r : Returned(r.o, <<l.y, r.y>>))
                         ELSE Returned(l.o, <<l.y>>))

\* The LFO phase is kept in units of 1 / (Scale * fx_rate) of a turn, so
\* that phase_increment = 2 * pi * rate / sample_rate is `rate` units.
Turn == Scale * fx_rate

\* np.sin of a phase, by Bhaskara's approximation on each half turn.
sin(phase) ==
    LET t == ((phase % Turn) * Scale) \div Turn
        h == Scale \div 2
        u == IF t < h THEN t ELSE t - h
        v == (16 * Scale * u * (h - u)) \div (5 * h * h - 4 * u * (h - u))
    IN  IF t < h THEN v ELSE -v

\* The delayed samples SimpleChorus.process reads for one channel: all reads
\* are made from the delay buffer as it is before the block is written.
\* quarter is the channel's LFO phase offset (0, or a quarter turn).
chorus_delayed(o, buf, frames, quarter) ==
    LET n == Len(buf)
        lfo(i) == sin(o.lfo_phase + (i - 1) * o.rate + quarter)
        delay_samples(i) ==
            o.base_delay_samples * Scale
            + int(lfo(i) * o.depth * o.base_delay_samples, 2 * Scale)
        read_pos_float(i) ==
            (((o.write_pos + (i - 1)) % n) * Scale - delay_samples(i)) % (n * Scale)
        read_pos_int(i) == read_pos_float(i) \div Scale
        frac(i) == read_pos_float(i) % Scale
    IN  [i \in 1..frames |->
            Mul(Scale - frac(i), buf[read_pos_int(i) + 1])
            + Mul(frac(i), buf[((read_pos_int(i) + 1) % n) + 1])]

\* `self.delay_buffer[write_positions] = x`: for a position written more
\* than once the last sample stays.
chorus_written(o, buf, x) ==
    LET n == Len(buf)
        hits(k) == {i \in 1..Len(x) : (o.write_pos + (i - 1)) % n = k - 1}
    IN  [k \in 1..n |->
            IF hits(k) = {} THEN buf[k]
            ELSE x[CHOOSE i \in hits(k) : \A j \in hits(k) : j <= i]]

\* SimpleChorus.process
SimpleChorus_process(o, block) ==
    LET frames == Frames(block)
        n == Len(o.delay_buffer_l)
        delayed_l == chorus_delayed(o, o.delay_buffer_l, frames, 0)
        delayed_r == chorus_delayed(o, o.delay_buffer_r, frames, Turn \div 4)
        after == [o EXCEPT
                    !.lfo_phase = IF frames > 0 THEN (@ + frames * o.rate) % Turn ELSE @,
                    !.delay_buffer_l = chorus_written(o, @, block[1]),
                    !.delay_buffer_r = IF Len(block) > 1
                                       THEN chorus_written(o, @, block[2]) ELSE @,
                    !.write_pos = (@ + frames) % n]
    IN  Returned(after,
                 IF Len(block) > 1
                 THEN <<Mix(o.wet, block[1], delayed_l), Mix(o.wet, block[2], delayed_r)>>
                 ELSE <<Mix(o.wet, block[1], delayed_l)>>)

\* EffectBase.process of whichever variant the object is.
process_of(o, block) ==
    CASE o.kind = "delay" -> SimpleDelay_process(o, block)
      [] o.kind = "reverb" -> SimpleReverb_process(o, block)
      [] o.kind = "distortion" -> SimpleDistortion_process(o, block)
      [] o.kind = "chorus" -> SimpleChorus_process(o, block)

\* EffectBase.__call__ on an effect object with its own state: a disabled
\* object is not modelled here; a process that raises yields the input.
call(o, block) ==
    Bind(process_of(o, block),
         LAMBDA r : IF r.raises THEN Returned(r.o, block) ELSE r)

\* The setters.  Each stores the clipped argument; none of them touches the
\* filter coefficients or delay tables built by the constructor.
set_delay_ms(x) ==
    /\ fx.kind = "delay"
    /\ fx' = [fx EXCEPT !.delay_ms = x]
    /\ UNCHANGED <<coreVars, feedVars>>

SimpleDelay_set_wet(x) ==
    /\ fx.kind = "delay"
    /\ fx' = [fx EXCEPT !.wet = clip(x, 0, Scale)]
    /\ UNCHANGED <<coreVars, feedVars>>

set_feedback(x) ==
    /\ fx.kind = "delay"
    /\ fx' = [fx EXCEPT !.feedback = clip(x, 0, 99)]
    /\ UNCHANGED <<coreVars, feedVars>>

set_room_size(x) ==
    /\ fx.kind = "reverb"
    /\ fx' = [fx EXCEPT !.room_size = clip(x, 0, Scale)]
    /\ UNCHANGED <<coreVars, feedVars>>

set_damping(x) ==
    /\ fx.kind = "reverb"
    /\ fx' = [fx EXCEPT !.damping = clip(x, 0, Scale)]
    /\ UNCHANGED <<coreVars, feedVars>>

SimpleReverb_set_wet(x) ==
    /\ fx.kind = "reverb"
    /\ fx' = [fx EXCEPT !.wet = clip(x, 0, Scale)]
    /\ UNCHANGED <<coreVars, feedVars>>

set_drive(x) ==
    /\ fx.kind = "distortion"
    /\ fx' = [fx EXCEPT !.drive = clip(x, Scale, 20 * Scale)]
    /\ UNCHANGED <<coreVars, feedVars>>

set_tone(x) ==
    /\ fx.kind = "distortion"
    /\ fx' = [fx EXCEPT !.tone = clip(x, 0, Scale)]
    /\ UNCHANGED <<coreVars, feedVars>>

set_level(x) ==
    /\ fx.kind = "distortion"
    /\ fx' = [fx EXCEPT !.level = clip(x, 0, Scale)]
    /\ UNCHANGED <<coreVars, feedVars>>

set_rate(x) ==
    /\ fx.kind = "chorus"
    /\ fx' = [fx EXCEPT !.rate = clip(x, 10, 10 * Scale)]
    /\ UNCHANGED <<coreVars, feedVars>>

set_depth(x) ==
    /\ fx.kind = "chorus"
    /\ fx' = [fx EXCEPT !.depth = clip(x, 0, Scale)]
    /\ UNCHANGED <<coreVars, feedVars>>

SimpleChorus_set_wet(x) ==
    /\ fx.kind = "chorus"
    /\ fx' = [fx EXCEPT !.wet = clip(x, 0, Scale)]
    /\ UNCHANGED <<coreVars, feedVars>>

\* ------------------------------------------------- driving one object
\* Frames a..(a + n - 1) of every channel, and channel-wise concatenation.
Slice(sig, a, n) == [c \in 1..Len(sig) |-> SubSeq(sig[c], a, a + n - 1)]
Cat(x, y) == [c \in 1..Len(x) |-> x[c] \o y[c]]
Silence(sig) == [c \in 1..Len(sig) |-> <<>>]

\* The object called once per frame of the block, one frame at a time: acc
\* collects what the calls return.
RECURSIVE frame_by_frame(_, _, _)
frame_by_frame(o, block, acc) ==
    IF Frames(block) = 0 THEN Returned(o, acc)
    ELSE Bind(call(o, Slice(block, 1, 1)),
              LAMBDA r : Bind(<<Slice(block, 2, Frames(block) - 1), Cat(acc, r.y)>>,
                              LAMBDA rest : frame_by_frame(r.o, rest[1], rest[2])))

\* A constructor call returns object o (or raises: o = Failed); a second
\* object is built by the same call.
Construct(o) ==
    /\ fx.kind = "none"
    /\ fx' = o
    /\ twin' = o
    /\ out' = Silence(signal)
    /\ twinOut' = Silence(twinSignal)
    /\ UNCHANGED <<coreVars, signal, twinSignal, fed, fx_enabled, last>>

\* The objects exist and input is left.
MayFeed(n) ==
    /\ fx.kind \notin {"none", "failed"}
    /\ signal # <<>>
    /\ n >= 1
    /\ fed + n <= Frames(signal)

\* The next n frames go through fx as one block, and through twin one frame
\* per call.
FeedSliced(n) ==
    /\ MayFeed(n)
    /\ \E r \in {call(fx, Slice(signal, fed + 1, n))},
          t \in {frame_by_frame(twin, Slice(twinSignal, fed + 1, n), Silence(twinSignal))} :
           /\ fx' = r.o
           /\ out' = Cat(out, r.y)
           /\ twin' = t.o
           /\ twinOut' = Cat(twinOut, t.y)
    /\ fed' = fed + n
    /\ UNCHANGED <<coreVars, signal, twinSignal, fx_enabled, last>>

\* The next n frames of each object's own input go through it as one block.
FeedBoth(n) ==
    /\ MayFeed(n)
    /\ \E r \in {call(fx, Slice(signal, fed + 1, n))},
          t \in {call(twin, Slice(twinSignal, fed + 1, n))} :
           /\ fx' = r.o
           /\ out' = Cat(out, r.y)
           /\ twin' = t.o
           /\ twinOut' = Cat(twinOut, t.y)
    /\ fed' = fed + n
    /\ UNCHANGED <<coreVars, signal, twinSignal, fx_enabled, last>>

\* ------------------------------------------------------- the audio binding
\* A Stream object is "none" until constructed, then "open" (inactive),
\* "active" (the binding invokes the callback) or "closed".
StreamStates == {"none", "open", "active", "closed"}

\* The next Stream object sd.Stream(...) constructs.
NewStream == 1 + Cardinality({s \in StreamId : streamState[s] # "none"})

\* Stream.stop() and Stream.close() return only once the stream's callback
\* is not executing.
CallbackQuiet(s) == pcA[s] = "idle"

\* Nominal latency (engine.py, start): buffer_size / sample_rate * 1000 * 2,
\* kept in microseconds.
Latency == (buffer_size * 2 * 1000000) \div sample_rate

\* Where a control-plane context can be inside start() and stop().
StartPcs == {"start_open", "start_go", "start_flag", "start_noop", "start_raised", "start_done"}
StopPcs == {"stop_flag", "stop_halt", "stop_close", "stop_noop", "stop_done"}
\* A call that has finished its last statement and is about to return.
ReturnPcs == {"start_noop", "start_raised", "start_done", "stop_noop", "stop_done"}

\* ------------------------------------------------------------------- Init
TypeOK ==
    /\ running \in BOOLEAN
    /\ stream \in 0..MaxStreams
    /\ streamState \in [StreamId -> StreamStates]
    /\ latency_ms \in {0, Latency}
    /\ total_frames \in 0..(MaxBlocks * buffer_size)
    /\ underruns \in 0..MaxBlocks
    /\ effects \in Seq(FxId) /\ Len(effects) <= MaxChain
    /\ effect_lock \in 0..MaxStreams
    /\ visualizers \in Seq(SinkId) /\ Len(visualizers) <= MaxViz
    /\ enabled \in [FxId -> BOOLEAN]
    /\ fxCalls \in [FxId -> 0..(MaxBlocks * MaxChain)]
    /\ cap \in [SinkId -> 0..MaxCap]
    /\ \A v \in SinkId : Len(queue[v]) <= MaxBlocks * MaxViz
    /\ pcC \in [Ctl -> {"idle"} \cup StartPcs \cup StopPcs]
    /\ pcA \in [StreamId -> {"idle", "lock", "loop", "out", "push"}]
    /\ blocks \in 0..MaxBlocks
    /\ status \in [StreamId -> StatusSet]
    /\ raised \in BOOLEAN

\* The engine, the effects and the sinks as their constructors leave them.
InitEngine ==
    /\ running = FALSE
    /\ stream = 0
    /\ streamState = [s \in StreamId |-> "none"]
    /\ latency_ms = 0
    /\ total_frames = 0
    /\ underruns = 0
    /\ effects = <<>>
    /\ effect_lock = 0
    /\ visualizers = <<>>

InitObjects ==
    /\ enabled = [e \in FxId |-> TRUE]
    /\ fxCalls = [e \in FxId |-> 0]
    /\ cap \in [SinkId -> 0..MaxCap]
    /\ queue = [v \in SinkId |-> <<>>]

InitContexts ==
    /\ pcC = [t \in Ctl |-> "idle"]
    /\ pcA = [s \in StreamId |-> "idle"]
    /\ audio = [s \in StreamId |-> NoBlock]
    /\ idx = [s \in StreamId |-> 0]
    /\ outdata = [s \in StreamId |-> NoBlock]
    /\ status = [s \in StreamId |-> {}]
    /\ blocks = 0
    /\ calls = [s \in StreamId |-> <<>>]
    /\ snapshot = [s \in StreamId |-> <<>>]
    /\ escaped = FALSE
    /\ stopDone = FALSE
    /\ raised = FALSE
    /\ result = NoResult

\* No effect object is being exercised on its own.
NoObject == [kind |-> "none"]

\* No call has been made on fx yet.
NoCall == [op |-> "none"]

\* EffectBase.__init__: enabled = True.
NewObject ==
    /\ fx_enabled = TRUE
    /\ last = NoCall

IdleBench ==
    /\ NewObject
    /\ fx = NoObject
    /\ twin = NoObject
    /\ signal = <<>>
    /\ twinSignal = <<>>
    /\ fed = 0
    /\ out = <<>>
    /\ twinOut = <<>>

Init == InitEngine /\ InitObjects /\ InitContexts /\ IdleBench

\* ------------------------------------------------------ AudioEngine.start
InStart(t) == pcC[t] \in StartPcs

\* start() without its `if self.running: return`.
StartCall_NoGuard(t) ==
    /\ pcC[t] = "idle"
    /\ pcC' = [pcC EXCEPT ![t] = "start_open"]
    /\ stopDone' = FALSE
    /\ UNCHANGED <<engineVars, metricVars, chainVars, sinkVars, audioVars, raised, result, benchVars>>

\* `if self.running: return`
StartCall(t) ==
    /\ pcC[t] = "idle"
    /\ pcC' = [pcC EXCEPT ![t] = IF running THEN "start_noop" ELSE "start_open"]
    /\ stopDone' = FALSE
    /\ UNCHANGED <<engineVars, metricVars, chainVars, sinkVars, audioVars, raised, result, benchVars>>

\* `self.latency_ms = ...; self.stream = sd.Stream(...)`
StartOpen(t) ==
    /\ pcC[t] = "start_open"
    /\ NewStream <= MaxStreams
    /\ latency_ms' = Latency
    /\ stream' = NewStream
    /\ streamState' = [streamState EXCEPT ![NewStream] = "open"]
    /\ pcC' = [pcC EXCEPT ![t] = "start_go"]
    /\ UNCHANGED <<running, metricVars, chainVars, sinkVars, audioVars, stopDone, raised, result, benchVars>>

\* `self.stream.start()`: starting an active stream changes nothing,
\* starting a closed one raises out of start().
StartGo(t) ==
    /\ pcC[t] = "start_go"
    /\ IF streamState[stream] = "closed"
       THEN /\ pcC' = [pcC EXCEPT ![t] = "start_raised"]
            /\ UNCHANGED streamState
       ELSE /\ streamState' = [streamState EXCEPT ![stream] = "active"]
            /\ pcC' = [pcC EXCEPT ![t] = "start_flag"]
    /\ UNCHANGED <<running, stream, latency_ms, metricVars, chainVars, sinkVars,
                   audioVars, stopDone, raised, result, benchVars>>

\* `self.running = True`
StartFlag(t) ==
    /\ pcC[t] = "start_flag"
    /\ running' = TRUE
    /\ pcC' = [pcC EXCEPT ![t] = "start_done"]
    /\ UNCHANGED <<stream, streamState, latency_ms, metricVars, chainVars, sinkVars,
                   audioVars, stopDone, raised, result, benchVars>>

\* ------------------------------------------------------- AudioEngine.stop
\* stop() without its `if not self.running: return`.
StopCall_NoGuard(t) ==
    /\ pcC[t] = "idle"
    /\ pcC' = [pcC EXCEPT ![t] = "stop_flag"]
    /\ UNCHANGED <<engineVars, metricVars, chainVars, sinkVars, audioVars, stopDone, raised, result, benchVars>>

\* `if not self.running: return`
StopCall(t) ==
    /\ pcC[t] = "idle"
    /\ pcC' = [pcC EXCEPT ![t] = IF ~running THEN "stop_noop" ELSE "stop_flag"]
    /\ UNCHANGED <<engineVars, metricVars, chainVars, sinkVars, audioVars, stopDone, raised, result, benchVars>>

\* stop() that also zeroes the session metrics it is about to print.
StopFlag_ResetsMetrics(t) ==
    /\ pcC[t] = "stop_flag"
    /\ running' = FALSE
    /\ total_frames' = 0
    /\ underruns' = 0
    /\ pcC' = [pcC EXCEPT ![t] = "stop_halt"]
    /\ UNCHANGED <<stream, streamState, latency_ms, chainVars, sinkVars,
                   audioVars, stopDone, raised, result, benchVars>>

\* `self.running = False`
StopFlag(t) ==
    /\ pcC[t] = "stop_flag"
    /\ running' = FALSE
    /\ pcC' = [pcC EXCEPT ![t] = "stop_halt"]
    /\ UNCHANGED <<stream, streamState, latency_ms, metricVars, chainVars, sinkVars,
                   audioVars, stopDone, raised, result, benchVars>>

\* `if self.stream: self.stream.stop()`
StopHalt(t) ==
    /\ pcC[t] = "stop_halt"
    /\ IF stream = 0
       THEN /\ pcC' = [pcC EXCEPT ![t] = "stop_done"]
            /\ UNCHANGED streamState
       ELSE /\ CallbackQuiet(stream)
            /\ streamState' = [streamState EXCEPT
                                 ![stream] = IF @ = "active" THEN "open" ELSE @]
            /\ pcC' = [pcC EXCEPT ![t] = "stop_close"]
    /\ UNCHANGED <<running, stream, latency_ms, metricVars, chainVars, sinkVars,
                   audioVars, stopDone, raised, result, benchVars>>

\* `self.stream.close()`
StopClose(t) ==
    /\ pcC[t] = "stop_close"
    /\ CallbackQuiet(stream)
    /\ streamState' = [streamState EXCEPT ![stream] = "closed"]
    /\ pcC' = [pcC EXCEPT ![t] = "stop_done"]
    /\ UNCHANGED <<running, stream, latency_ms, metricVars, chainVars, sinkVars,
                   audioVars, stopDone, raised, result, benchVars>>

\* start() or stop() returns to its caller.  stopDone records that a stop()
\* which found the engine running has returned while no start() call is open.
Return(t) ==
    /\ pcC[t] \in ReturnPcs
    /\ pcC' = [pcC EXCEPT ![t] = "idle"]
    /\ stopDone' = IF pcC[t] = "stop_done"
                   THEN ~(\E u \in Ctl : InStart(u))
                   ELSE stopDone
    /\ UNCHANGED <<engineVars, metricVars, chainVars, sinkVars, audioVars, raised, result, benchVars>>

\* ------------------------------------------- AudioEngine._audio_callback
\* `if status: if status.input_overflow or status.output_underflow`
CountsAsUnderrun(st) == st # {} /\ ("input_overflow" \in st \/ "output_underflow" \in st)

\* `outdata[:] = audio` raises unless audio's frames broadcast to outdata's.
Assignable(a) == a.frames = buffer_size \/ a.frames = 1

\* The binding invokes the callback of an active stream:
\* the status check and `audio = indata.copy()`.
CbBegin(s) ==
    /\ streamState[s] = "active"
    /\ pcA[s] = "idle"
    /\ blocks < MaxBlocks
    /\ \E st \in StatusSet :
          /\ status' = [status EXCEPT ![s] = st]
          /\ underruns' = underruns + (IF CountsAsUnderrun(st) THEN 1 ELSE 0)
    /\ blocks' = blocks + 1
    /\ audio' = [audio EXCEPT ![s] = Block(blocks + 1, buffer_size, <<>>)]
    /\ pcA' = [pcA EXCEPT ![s] = "lock"]
    /\ UNCHANGED <<engineVars, total_frames, chainVars, sinkVars, ctlVars,
                   idx, outdata, calls, snapshot, escaped, benchVars>>

\* `with self.effect_lock:` entered, `for effect in self.effects` begins
CbAcquire(s) ==
    /\ pcA[s] = "lock"
    /\ effect_lock = 0
    /\ effect_lock' = s
    /\ idx' = [idx EXCEPT ![s] = 0]
    /\ snapshot' = [snapshot EXCEPT ![s] = effects]
    /\ pcA' = [pcA EXCEPT ![s] = "loop"]
    /\ UNCHANGED <<engineVars, metricVars, effects, enabled, fxCalls, sinkVars, ctlVars,
                   audio, outdata, status, blocks, calls, escaped, benchVars>>

\* `audio = effect(audio)` for the list iterator's next element
CbEffect(s) ==
    /\ pcA[s] = "loop"
    /\ idx[s] < Len(effects)
    /\ LET e == effects[idx[s] + 1]
           en == enabled[e]
       IN  \E o \in (IF ProcessInvoked(en) THEN Outcomes ELSE {"bypass"}) :
              /\ audio' = [audio EXCEPT ![s] = EffectCall(e, @, en, o)]
              /\ fxCalls' = [fxCalls EXCEPT ![e] = IF ProcessInvoked(en) THEN @ + 1 ELSE @]
              /\ calls' = [calls EXCEPT ![s] = Append(@, [e |-> e, en |-> en, o |-> o])]
    /\ idx' = [idx EXCEPT ![s] = @ + 1]
    /\ UNCHANGED <<engineVars, metricVars, effects, effect_lock, enabled, sinkVars, ctlVars,
                   pcA, outdata, status, blocks, snapshot, escaped, benchVars>>

\* A callback that leaves the loop with the guard still held.
CbRelease_KeepsGuard(s) ==
    /\ pcA[s] = "loop"
    /\ idx[s] >= Len(effects)
    /\ pcA' = [pcA EXCEPT ![s] = "out"]
    /\ UNCHANGED <<engineVars, metricVars, chainVars, sinkVars, ctlVars,
                   audio, idx, outdata, status, blocks, calls, snapshot, escaped, benchVars>>

\* the list iterator is exhausted: the `with` block releases the guard
CbRelease(s) ==
    /\ pcA[s] = "loop"
    /\ idx[s] >= Len(effects)
    /\ effect_lock' = 0
    /\ pcA' = [pcA EXCEPT ![s] = "out"]
    /\ UNCHANGED <<engineVars, metricVars, effects, enabled, fxCalls, sinkVars, ctlVars,
                   audio, idx, outdata, status, blocks, calls, snapshot, escaped, benchVars>>

\* What the binding does when an exception leaves the callback: the stream
\* is aborted (inactive), and the callback's frame is gone.
CallbackRaises(s) ==
    /\ escaped' = TRUE
    /\ streamState' = [streamState EXCEPT ![s] = "open"]
    /\ pcA' = [pcA EXCEPT ![s] = "idle"]
    /\ audio' = [audio EXCEPT ![s] = NoBlock]
    /\ idx' = [idx EXCEPT ![s] = 0]
    /\ status' = [status EXCEPT ![s] = {}]
    /\ calls' = [calls EXCEPT ![s] = <<>>]
    /\ snapshot' = [snapshot EXCEPT ![s] = <<>>]

\* `outdata[:] = audio`
CbOutput(s) ==
    /\ pcA[s] = "out"
    /\ IF Assignable(audio[s])
       THEN /\ outdata' = [outdata EXCEPT ![s] = audio[s]]
            /\ idx' = [idx EXCEPT ![s] = 0]
            /\ pcA' = [pcA EXCEPT ![s] = "push"]
            /\ UNCHANGED <<streamState, audio, status, calls, snapshot, escaped>>
       ELSE /\ CallbackRaises(s)
            /\ UNCHANGED outdata
    /\ UNCHANGED <<running, stream, latency_ms, metricVars, chainVars, sinkVars, ctlVars,
                   blocks, benchVars>>

\* `viz.push_audio(audio)` for the list iterator's next visualizer
CbPush(s) ==
    /\ pcA[s] = "push"
    /\ idx[s] < Len(visualizers)
    /\ LET v == visualizers[idx[s] + 1]
       IN  /\ PutReturns(queue[v], cap[v])
           /\ queue' = [queue EXCEPT ![v] = push_audio(@, cap[v], audio[s])]
    /\ idx' = [idx EXCEPT ![s] = @ + 1]
    /\ UNCHANGED <<engineVars, metricVars, chainVars, visualizers, cap, ctlVars,
                   pcA, audio, outdata, status, blocks, calls, snapshot, escaped, benchVars>>

\* `self.total_frames += frames`, and the callback returns to the binding
CbReturn(s) ==
    /\ pcA[s] = "push"
    /\ idx[s] >= Len(visualizers)
    /\ total_frames' = total_frames + buffer_size
    /\ pcA' = [pcA EXCEPT ![s] = "idle"]
    /\ audio' = [audio EXCEPT ![s] = NoBlock]
    /\ outdata' = [outdata EXCEPT ![s] = NoBlock]
    /\ idx' = [idx EXCEPT ![s] = 0]
    /\ status' = [status EXCEPT ![s] = {}]
    /\ calls' = [calls EXCEPT ![s] = <<>>]
    /\ snapshot' = [snapshot EXCEPT ![s] = <<>>]
    /\ UNCHANGED <<engineVars, underruns, chainVars, sinkVars, ctlVars, blocks, escaped, benchVars>>

\* ------------------------------------------------ chain and sink mutators
\* add_effect and remove_effect editing the list without the guard.
MutatorMayEnter_NoGuard == TRUE

\* `with self.effect_lock:` in add_effect and remove_effect
MutatorMayEnter == effect_lock = 0

\* add_effect that puts the new effect at the head of the list.
add_effect_AtHead(e) ==
    /\ MutatorMayEnter
    /\ Len(effects) < MaxChain
    /\ effects' = <<e>> \o effects
    /\ UNCHANGED <<engineVars, metricVars, effect_lock, enabled, fxCalls, sinkVars,
                   ctlVars, audioVars, benchVars>>

\* AudioEngine.add_effect
add_effect(e) ==
    /\ MutatorMayEnter
    /\ Len(effects) < MaxChain
    /\ effects' = Append(effects, e)
    /\ UNCHANGED <<engineVars, metricVars, effect_lock, enabled, fxCalls, sinkVars,
                   ctlVars, audioVars, benchVars>>

\* remove_effect without `if effect in self.effects`: list.remove raises
\* ValueError for an element that is not in the list.
remove_effect_NoMembershipTest(e) ==
    /\ MutatorMayEnter
    /\ IF e \in Range(effects)
       THEN effects' = RemoveFirst(effects, e) /\ UNCHANGED raised
       ELSE raised' = TRUE /\ UNCHANGED effects
    /\ UNCHANGED <<engineVars, metricVars, effect_lock, enabled, fxCalls, sinkVars,
                   pcC, stopDone, result, audioVars, benchVars>>

\* AudioEngine.remove_effect
remove_effect(e) ==
    /\ MutatorMayEnter
    /\ effects' = IF e \in Range(effects) THEN RemoveFirst(effects, e) ELSE effects
    /\ UNCHANGED <<engineVars, metricVars, effect_lock, enabled, fxCalls, sinkVars,
                   ctlVars, audioVars, benchVars>>

\* EffectBase.enable / disable / toggle
enable(e) ==
    /\ enabled' = [enabled EXCEPT ![e] = TRUE]
    /\ UNCHANGED <<engineVars, metricVars, effects, effect_lock, fxCalls, sinkVars,
                   ctlVars, audioVars, benchVars>>

disable(e) ==
    /\ enabled' = [enabled EXCEPT ![e] = FALSE]
    /\ UNCHANGED <<engineVars, metricVars, effects, effect_lock, fxCalls, sinkVars,
                   ctlVars, audioVars, benchVars>>

toggle(e) ==
    /\ enabled' = [enabled EXCEPT ![e] = ~@]
    /\ UNCHANGED <<engineVars, metricVars, effects, effect_lock, fxCalls, sinkVars,
                   ctlVars, audioVars, benchVars>>

\* AudioEngine.add_visualizer
add_visualizer(v) ==
    /\ Len(visualizers) < MaxViz
    /\ visualizers' = Append(visualizers, v)
    /\ UNCHANGED <<engineVars, metricVars, chainVars, cap, queue, ctlVars, audioVars, benchVars>>

\* The consumer's `self.queue.get_nowait()` on a non-empty queue
ConsumerPop(v) ==
    /\ queue[v] # <<>>
    /\ queue' = [queue EXCEPT ![v] = Tail(@)]
    /\ UNCHANGED <<engineVars, metricVars, chainVars, visualizers, cap, ctlVars, audioVars, benchVars>>

\* AudioEngine.list_effects: one entry per chain position, in chain order,
\* with the effect's name and 'ON' or 'OFF'.
list_effects ==
    [i \in 1..Len(effects) |->
        <<name[effects[i]], IF enabled[effects[i]] THEN "ON" ELSE "OFF">>]

\* get_effect that keeps looking after a match and returns the last one.
get_effect_LastMatch(n) ==
    LET hits == {i \in 1..Len(effects) : name[effects[i]] = n}
    IN  IF hits = {} THEN <<>>
        ELSE <<effects[CHOOSE i \in hits : \A j \in hits : j <= i]>>

\* AudioEngine.get_effect: the loop returns at the first effect whose name
\* is n; <<e>> stands for returning e and <<>> for returning None.
get_effect(n) ==
    LET hits == {i \in 1..Len(effects) : name[effects[i]] = n}
    IN  IF hits = {} THEN <<>>
        ELSE <<effects[CHOOSE i \in hits : \A j \in hits : i <= j]>>

\* A get_effect(n) call: `with self.effect_lock:` and the return.
get_effect_returns(n) ==
    /\ MutatorMayEnter
    /\ result' = [call |-> "get_effect", arg |-> n, value |-> get_effect(n)]
    /\ UNCHANGED <<engineVars, metricVars, chainVars, sinkVars, pcC, stopDone, raised,
                   audioVars, benchVars>>

\* A list_effects() call: `with self.effect_lock:` and the return.
list_effects_returns ==
    /\ MutatorMayEnter
    /\ result' = [call |-> "list_effects", value |-> list_effects]
    /\ UNCHANGED <<engineVars, metricVars, chainVars, sinkVars, pcC, stopDone, raised,
                   audioVars, benchVars>>

\* ---------------------------------------------------------- specification
start(t) == StartCall(t) \/ StartOpen(t) \/ StartGo(t) \/ StartFlag(t)

stop(t) == StopCall(t) \/ StopFlag(t) \/ StopHalt(t) \/ StopClose(t)

Lifecycle(t) == start(t) \/ stop(t) \/ Return(t)

Callback(s) ==
    \/ CbBegin(s) \/ CbAcquire(s) \/ CbEffect(s) \/ CbRelease(s)
    \/ CbOutput(s) \/ CbPush(s) \/ CbReturn(s)

ChainControl ==
    \E e \in FxId : add_effect(e) \/ remove_effect(e)

FlagControl ==
    \E e \in FxId : enable(e) \/ disable(e) \/ toggle(e)

SinkControl ==
    \E v \in SinkId : add_visualizer(v) \/ ConsumerPop(v)

\* A freshly constructed engine driven by one control-plane context that
\* starts it, attaches sinks and edits the chain while blocks are processed.
Next ==
    \/ start("ui") \/ Return("ui")
    \/ \E s \in StreamId : Callback(s)
    \/ ChainControl
    \/ SinkControl

Spec == Init /\ [][Next]_vars

\* An engine whose chain was built before start (as main.py and gui.py can),
\* with effects switched on and off and sinks attached and drained while
\* blocks are processed.
InitSink ==
    /\ InitObjects /\ InitContexts /\ IdleBench
    /\ running = FALSE
    /\ stream = 0
    /\ streamState = [s \in StreamId |-> "none"]
    /\ latency_ms = 0
    /\ total_frames = 0
    /\ underruns = 0
    /\ effects \in {<<>>, <<"A", "B">>}
    /\ effect_lock = 0
    /\ visualizers = <<>>

NextSink ==
    \/ start("ui") \/ Return("ui")
    \/ \E s \in StreamId : Callback(s)
    \/ FlagControl
    \/ SinkControl

SpecSink == InitSink /\ [][NextSink]_vars

\* The same engine with a visualizer attached, and every control-plane
\* context free to call start() and stop() at any time.
InitLife ==
    /\ InitObjects /\ InitContexts /\ IdleBench
    /\ running = FALSE
    /\ stream = 0
    /\ streamState = [s \in StreamId |-> "none"]
    /\ latency_ms = 0
    /\ total_frames = 0
    /\ underruns = 0
    /\ effects = <<"A">>
    /\ effect_lock = 0
    /\ visualizers = <<"viz">>

NextLife ==
    \/ \E t \in Ctl : Lifecycle(t)
    \/ \E s \in StreamId : Callback(s)

SpecLife == InitLife /\ [][NextLife]_vars

\* The same engine whose sink has no consumer draining it: the audio context
\* keeps pushing, nothing pops.  The binding schedules a callback that has
\* a step to take.
InitStall ==
    /\ InitObjects /\ InitContexts /\ IdleBench
    /\ running = FALSE
    /\ stream = 0
    /\ streamState = [s \in StreamId |-> "none"]
    /\ latency_ms = 0
    /\ total_frames = 0
    /\ underruns = 0
    /\ effects = <<"A">>
    /\ effect_lock = 0
    /\ visualizers = <<"viz">>

NextStall ==
    \/ start("ui") \/ Return("ui")
    \/ \E s \in StreamId : Callback(s)

SpecStall ==
    /\ InitStall /\ [][NextStall]_vars
    /\ \A s \in StreamId : WF_vars(Callback(s))

\* The arguments constructors and setters are called with (in hundredths):
\* below, inside and above every parameter's range.
ArgValues == {-100, 0, 50, 100, 2500}

\* delay_ms arguments, in milliseconds.
DelayMsArgs == {-10, 0, 5, 10, 20}

\* The engine as constructed and never started (no step of it is taken).
InitCore ==
    /\ InitEngine /\ InitObjects /\ InitContexts
    /\ \A v \in SinkId : cap[v] = MaxCap

\* Every object a constructor call can yield.
Constructed ==
    UNION {
        {SimpleDelay(d, x, y) : d \in DelayMsArgs, x \in ArgValues, y \in ArgValues},
        {SimpleReverb(x, y, z) : x \in ArgValues, y \in ArgValues, z \in ArgValues},
        {SimpleDistortion(x, y, z) : x \in ArgValues, y \in ArgValues, z \in ArgValues},
        {SimpleChorus(x, y, z) : x \in ArgValues, y \in ArgValues, z \in ArgValues} }

\* An effect object is constructed with any arguments, and then its setters
\* are called with any arguments, in any order.
InitParams == InitCore /\ IdleBench

NextParams ==
    \/ \E o \in Constructed : Construct(o)
    \/ \E x \in ArgValues :
          \/ \E d \in DelayMsArgs : set_delay_ms(d)
          \/ SimpleDelay_set_wet(x) \/ set_feedback(x)
          \/ set_room_size(x) \/ set_damping(x) \/ SimpleReverb_set_wet(x)
          \/ set_drive(x) \/ set_tone(x) \/ set_level(x)
          \/ set_rate(x) \/ set_depth(x) \/ SimpleChorus_set_wet(x)

SpecParams == InitParams /\ [][NextParams]_vars

\* Input signals: MaxLen frames of silence or full-scale samples, mono or
\* stereo.
MaxLen == 3
Samples == {0, Scale}
Channel == [1..MaxLen -> Samples]
Mono == {<<l>> : l \in Channel}
Stereo == {<<l, r>> : l \in Channel, r \in Channel}

\* Objects of every variant with parameters inside their ranges, and a
\* Delay constructed with delay_ms = 0.
BenchObjects ==
    { SimpleDelay(10, 50, 50), SimpleDelay(20, 0, 100), SimpleDelay(0, 50, 50),
      SimpleReverb(0, 50, 50), SimpleReverb(50, 0, 100),
      SimpleDistortion(100, 50, 100), SimpleDistortion(2500, 0, 50),
      SimpleChorus(100, 0, 100), SimpleChorus(2500, 100, 50) }

\* One input, an object and its twin built alike; the input reaches fx cut
\* into blocks of any lengths and the twin frame by frame.
InitBlocks ==
    /\ InitCore
    /\ fx = NoObject
    /\ twin = NoObject
    /\ signal \in Mono \cup Stereo
    /\ twinSignal = signal
    /\ NewObject
    /\ fed = 0
    /\ out = <<>>
    /\ twinOut = <<>>

NextBlocks ==
    \/ \E o \in BenchObjects : Construct(o)
    \/ \E n \in 1..MaxLen : FeedSliced(n)

SpecBlocks == InitBlocks /\ [][NextBlocks]_vars

\* Two stereo inputs with the same right channel go through two Reverb
\* objects built alike, cut into the same blocks.
ReverbObjects == {SimpleReverb(0, 50, 50), SimpleReverb(50, 0, 100)}

InitStereo ==
    /\ InitCore
    /\ fx = NoObject
    /\ twin = NoObject
    /\ signal \in Stereo
    /\ twinSignal \in {<<l, signal[2]>> : l \in Channel}
    /\ NewObject
    /\ fed = 0
    /\ out = <<>>
    /\ twinOut = <<>>

NextStereo ==
    \/ \E o \in ReverbObjects : Construct(o)
    \/ \E n \in 1..MaxLen : FeedBoth(n)

SpecStereo == InitStereo /\ [][NextStereo]_vars

\* A click: 1.0 at frame 0 and silence after it, EchoLen frames in all,
\* mono or on both channels.
EchoLen == 7
Click == [i \in 1..EchoLen |-> IF i = 1 THEN Scale ELSE 0]

\* Fresh Delays of two and of three delay samples, whose feedback and wet
\* give products that hundredths hold exactly up to the third echo.
EchoObjects ==
    {SimpleDelay(d, f, w) : d \in {20, 30}, f \in {0, 50, 90}, w \in {0, 50, 100}}

\* test_delay: a fresh Delay is given the click, here cut into blocks of
\* any lengths.
InitEcho ==
    /\ InitCore
    /\ fx = NoObject
    /\ twin = NoObject
    /\ signal \in {<<Click>>, <<Click, Click>>}
    /\ twinSignal = signal
    /\ NewObject
    /\ fed = 0
    /\ out = <<>>
    /\ twinOut = <<>>

NextEcho ==
    \/ \E o \in EchoObjects : Construct(o)
    \/ \E n \in 1..EchoLen : FeedSliced(n)

SpecEcho == InitEcho /\ [][NextEcho]_vars

\* ------------------------------------------- one object, called directly
\* EffectBase.enable / disable on fx.
fx_enable ==
    /\ fx.kind \notin {"none", "failed"}
    /\ fx_enabled' = TRUE
    /\ UNCHANGED <<coreVars, fx, twin, signal, twinSignal, fed, out, twinOut, last>>

fx_disable ==
    /\ fx.kind \notin {"none", "failed"}
    /\ fx_enabled' = FALSE
    /\ UNCHANGED <<coreVars, fx, twin, signal, twinSignal, fed, out, twinOut, last>>

\* How many frames one object is given in all.
MaxUse == 3

\* The object exists and may be given the block.
MayUse(block) ==
    /\ fx.kind \notin {"none", "failed"}
    /\ fed + Frames(block) <= MaxUse

\* What a call on fx leaves behind: the object before it, the flag, the
\* argument, and what came back.
Called(op, block, r) ==
    [op |-> op, enabled |-> fx_enabled, before |-> fx, block |-> block,
     y |-> r.y, raises |-> r.raises]

\* `fx.process(block)`, as test_delay.py calls it: the variant's process,
\* which does not read self.enabled.
Process(block) ==
    /\ MayUse(block)
    /\ \E r \in {process_of(fx, block)} :
          /\ fx' = r.o
          /\ last' = Called("process", block, r)
    /\ fed' = fed + Frames(block)
    /\ UNCHANGED <<coreVars, twin, signal, twinSignal, out, twinOut, fx_enabled>>

\* `fx(block)`, as the engine's callback calls it: EffectBase.__call__
\* returns the block itself when the object is disabled.
Call(block) ==
    /\ MayUse(block)
    /\ \E r \in {IF fx_enabled THEN call(fx, block) ELSE Returned(fx, block)} :
          /\ fx' = r.o
          /\ last' = Called("call", block, r)
    /\ fed' = fed + Frames(block)
    /\ UNCHANGED <<coreVars, twin, signal, twinSignal, out, twinOut, fx_enabled>>

\* Samples inside [-1, 1] and far outside it; mono blocks of one frame and
\* of two, and a stereo block.
UseBlocks ==
    {<<<<x>>>> : x \in {-3 * Scale, 0, Scale}}
        \cup {<<<<Scale, 0>>>>, <<<<-3 * Scale, Scale>>>>, <<<<Scale>>, <<-3 * Scale>>>>}

\* An object of every variant, and a Delay constructed with delay_ms = 0.
UseObjects ==
    { SimpleDelay(10, 50, 50), SimpleDelay(0, 50, 50),
      SimpleReverb(0, 50, 50), SimpleDistortion(2500, 50, 100),
      SimpleChorus(100, 100, 50) }

\* An object is constructed, then called directly and through __call__ with
\* any blocks, its setters and enable/disable being called in between.
InitUse == InitCore /\ IdleBench

NextUse ==
    \/ \E o \in UseObjects : Construct(o)
    \/ \E block \in UseBlocks : Process(block) \/ Call(block)
    \/ fx_enable \/ fx_disable
    \/ \E x \in {0, 90} : set_feedback(x) \/ set_delay_ms(x)
    \/ SimpleDelay_set_wet(0) \/ SimpleReverb_set_wet(0) \/ SimpleChorus_set_wet(0)

SpecUse == InitUse /\ [][NextUse]_vars

\* A caller that attaches sinks at any moment of the engine's life.
BeforeStart_AtAnyTime == TRUE

\* Where run_interactive (main.py) and the GUI's start handler (gui.py) call
\* engine.add_visualizer: on the engine they have just constructed, before
\* their engine.start().
BeforeStart == stream = 0 /\ ~running /\ \A t \in Ctl : pcC[t] = "idle"

\* `engine.add_visualizer(viz)` as the callers issue it
attach_visualizer(v) == BeforeStart /\ add_visualizer(v)

\* The engine as the application drives it: sinks attached, then start(),
\* then the effect added and blocks processed, sinks drained, then stop().
NextApp ==
    \/ \E v \in SinkId : attach_visualizer(v) \/ ConsumerPop(v)
    \/ Lifecycle("ui")
    \/ \E s \in StreamId : Callback(s)
    \/ add_effect("A")

SpecApp == Init /\ [][NextApp]_vars

\* The chain read and edited with no stream open: effects added, removed
\* and switched on and off, and the chain queried by name and listed.
Queries ==
    \/ \E n \in Names : get_effect_returns(n)
    \/ list_effects_returns

NextQuery == ChainControl \/ FlagControl \/ Queries

SpecQuery == Init /\ [][NextQuery]_vars

\* A started engine with one effect and a sink, whose chain is edited and
\* queried while blocks are processed.  The binding schedules a callback
\* that has a step to take.
NextGuard ==
    \/ start("ui") \/ Return("ui")
    \/ \E s \in StreamId : Callback(s)
    \/ add_effect("B") \/ remove_effect("B")
    \/ Queries

SpecGuard ==
    /\ InitStall /\ [][NextGuard]_vars
    /\ \A s \in StreamId : WF_vars(Callback(s))

\* ================================================================= claims
\* A step of control-plane context t inside stop(): its call, one of its
\* statements, or its return.
StopStep(t) ==
    /\ pcC'[t] # pcC[t]
    /\ \/ pcC[t] \in StopPcs
       \/ pcC[t] = "idle" /\ pcC'[t] \in StopPcs

\* What belongs to the engine and its collaborators besides the running
\* flag and the audio binding.
keptByLifecycle == <<latency_ms, metricVars, chainVars, sinkVars>>

\* C1: once a stop() call that found the engine running has returned, and
\* no start() has been called since, the binding invokes the block callback
\* no more (the count of invoked callbacks stays as it is).
C1_NoCallbackAfterStop == [][stopDone => blocks' = blocks]_vars

\* C6: start() on an engine that is already running is a no-op: the call
\* goes straight to its return, opens no stream, and leaves the stream, the
\* running flag, the chain, the sinks and the metrics as they are.
C6_StartIdempotent ==
    [][\A t \in Ctl :
         /\ (pcC[t] = "idle" /\ pcC'[t] \in StartPcs /\ running)
               => /\ pcC'[t] = "start_noop"
                  /\ UNCHANGED <<engineVars, keptByLifecycle>>
         /\ (pcC[t] = "start_noop" /\ pcC'[t] # pcC[t])
               => /\ pcC'[t] = "idle"
                  /\ UNCHANGED <<engineVars, keptByLifecycle>>]_vars

\* C6 witness: a start() call is returning as a no-op while the engine runs
\* an active stream that has already processed a block.
C6_Witness ==
    \E t \in Ctl :
        /\ pcC[t] = "start_noop"
        /\ running
        /\ streamState[stream] = "active"
        /\ total_frames > 0

\* C7: stop() on a stopped engine (never started, or already stopped)
\* changes no state and does not touch the audio binding.
C7_StopIdempotent ==
    [][\A t \in Ctl :
         /\ (pcC[t] = "idle" /\ pcC'[t] \in StopPcs /\ ~running)
               => /\ pcC'[t] = "stop_noop"
                  /\ UNCHANGED <<engineVars, keptByLifecycle>>
         /\ (pcC[t] = "stop_noop" /\ pcC'[t] # pcC[t])
               => /\ pcC'[t] = "idle"
                  /\ UNCHANGED <<engineVars, keptByLifecycle>>]_vars

\* C7 witness: a second stop() is returning as a no-op after an earlier
\* stop() has stopped and closed the engine's stream.
C7_Witness ==
    \E t \in Ctl :
        /\ pcC[t] = "stop_noop"
        /\ ~running
        /\ stream # 0
        /\ streamState[stream] = "closed"

\* C8: no step of stop() changes the effect chain, an effect's enabled flag
\* or filter state, the sink list, a sink's contents, or the metrics.
C8_StopFrame ==
    [][\A t \in Ctl : StopStep(t) => UNCHANGED <<stream, keptByLifecycle>>]_vars

\* C8 witness: a stop() that found the engine running has finished with a
\* non-empty chain, an effect that has processed blocks, a sink holding a
\* block and non-zero metrics.
C8_Witness ==
    \E t \in Ctl :
        /\ pcC[t] = "stop_done"
        /\ streamState[stream] = "closed"
        /\ effects # <<>>
        /\ \E e \in FxId : fxCalls[e] > 0
        /\ \E v \in SinkId : queue[v] # <<>>
        /\ total_frames > 0

\* The effects __call__ed on the current block of stream s, in call order.
Applied(s) == [i \in 1..Len(calls[s]) |-> calls[s][i].e]

\* The effects that transformed the current block: those called while
\* enabled whose process did not raise.
Contributed(s) ==
    LET kept == SelectSeq(calls[s], LAMBDA c : c.en /\ c.o # "raise")
    IN  [i \in 1..Len(kept) |-> kept[i].e]

\* C2: when a callback has traversed the chain, every chain position was
\* called once in index order, and no effect object was called twice on the
\* block.
C2_EachEffectOnce ==
    \A s \in StreamId :
        pcA[s] = "out" =>
            /\ Applied(s) = snapshot[s]
            /\ \A i, j \in 1..Len(calls[s]) : i # j => calls[s][i].e # calls[s][j].e

\* C3: the chain does not change while a block traverses it, and the
\* effects applied to the block are the chain as it was at the one instant
\* the callback acquired the guard.
C3_ChainLinearizable ==
    \A s \in StreamId :
        /\ pcA[s] = "loop" =>
              /\ effects = snapshot[s]
              /\ Applied(s) = SubSeq(snapshot[s], 1, idx[s])
        /\ pcA[s] \in {"out", "push"} => Applied(s) = snapshot[s]

\* C3 witness: a block has traversed a two-effect chain and the chain was
\* edited right after the traversal, while the callback is still running.
C3_Witness ==
    \E s \in StreamId :
        /\ pcA[s] = "out"
        /\ Len(snapshot[s]) = 2
        /\ Applied(s) = snapshot[s]
        /\ effects # snapshot[s]

\* C9: calling a disabled effect through __call__ returns the block it was
\* given and does not run the effect's process.
C9_DisabledPassThrough ==
    [][\A s \in StreamId :
         (/\ pcA[s] = "loop"
          /\ idx'[s] = idx[s] + 1
          /\ ~enabled[effects[idx[s] + 1]])
            => /\ audio'[s] = audio[s]
               /\ fxCalls' = fxCalls]_vars

\* C9 witness: in one traversal a disabled effect was passed over, its
\* process never having run, while the other effect transformed the block.
C9_Witness ==
    \E s \in StreamId :
        /\ pcA[s] = "out"
        /\ Len(calls[s]) = 2
        /\ ~calls[s][1].en
        /\ fxCalls[calls[s][1].e] = 0
        /\ calls[s][2].en /\ calls[s][2].o = "ok"
        /\ audio[s].fx = <<calls[s][2].e>>

\* C4: an effect whose process raises contributes nothing to the block and
\* stays in the chain, enabled; the effects after it are still called; and
\* the callback goes on to write the block to the output and to push it to
\* every sink, as long as the block it holds fits the output buffer.
C4_FaultIsolation ==
    /\ [](\A s \in StreamId :
            /\ pcA[s] \in {"loop", "out", "push"} => audio[s].fx = Contributed(s)
            /\ pcA[s] \in {"out", "push"} => Applied(s) = snapshot[s]
            /\ pcA[s] = "push" => outdata[s] = audio[s])
    /\ [][\A s \in StreamId :
            /\ (/\ pcA[s] = "loop"
                /\ Len(calls'[s]) = Len(calls[s]) + 1
                /\ calls'[s][Len(calls'[s])].o = "raise")
                  => /\ audio'[s] = audio[s]
                     /\ pcA'[s] = "loop"
                     /\ UNCHANGED <<effects, enabled, escaped>>
            /\ (pcA[s] = "out" /\ pcA'[s] # "out" /\ Assignable(audio[s]))
                  => pcA'[s] = "push" /\ outdata'[s] = audio[s]
            /\ (pcA[s] = "push" /\ pcA'[s] = "idle")
                  => idx[s] = Len(visualizers) /\ escaped' = escaped]_vars

\* C4 witness: effect A raised on a block, B after it transformed the
\* block, the output holds B's result, the sink received it, and A is still
\* first in the chain and enabled.
C4_Witness ==
    \E s \in StreamId :
        /\ pcA[s] = "push"
        /\ visualizers # <<>>
        /\ idx[s] = Len(visualizers)
        /\ Len(calls[s]) = 2
        /\ calls[s][1].e = "A" /\ calls[s][1].o = "raise"
        /\ calls[s][2].e = "B" /\ calls[s][2].o = "ok"
        /\ outdata[s].fx = <<"B">>
        /\ \E v \in SinkId : queue[v] # <<>> /\ queue[v][Len(queue[v])] = audio[s]
        /\ effects = <<"A", "B">>
        /\ enabled["A"]

\* C5: no error propagates out of the block callback, whatever the effects
\* return.
C5_NoErrorEscapes == ~escaped

\* C10: a sink never buffers more blocks than the max_queue_size it was
\* constructed with.
C10_SinkBounded == \A v \in SinkId : Len(queue[v]) <= cap[v]

\* A step in which the callback of stream s calls push_audio on the next sink.
PushStep(s) == pcA[s] = "push" /\ idx'[s] = idx[s] + 1

\* C11: push_audio on a sink that already holds max_queue_size blocks
\* discards the arriving block and leaves the buffered blocks and their order
\* as they are; on a sink with room it appends the block at the tail; no
\* error reaches the callback; and the consumer pops from the head.
C11_DropNewestOnFull ==
    [][/\ \A s \in StreamId :
            PushStep(s) =>
                LET v == visualizers[idx[s] + 1]
                IN  /\ queue'[v] = IF Len(queue[v]) >= cap[v]
                                   THEN queue[v]
                                   ELSE Append(queue[v], audio[s])
                    /\ pcA'[s] = "push"
                    /\ escaped' = escaped
       /\ \A v \in SinkId :
            Len(queue'[v]) < Len(queue[v]) => queue'[v] = Tail(queue[v])]_vars

\* C12: once more blocks than a sink's max_queue_size N have been pushed with
\* no pop in between, the sink holds exactly N blocks and they are the last
\* N pushed (stated for N >= 1, where the sink is bounded).
C12_KeepsMostRecent ==
    \A s \in StreamId :
        (pcA[s] = "push" /\ idx[s] = Len(visualizers)) =>
            \A v \in Range(visualizers) :
                (cap[v] >= 1 /\ audio[s].id > cap[v]) =>
                    /\ Len(queue[v]) = cap[v]
                    /\ \A i \in 1..Len(queue[v]) :
                          queue[v][i].id = audio[s].id - cap[v] + i

\* C13: a push_audio call is never held up, whatever the sink holds, and a
\* callback the binding has started returns to it even though nothing ever
\* pops the sink.
C13_AudioNeverWaits ==
    /\ [](\A s \in StreamId :
            (pcA[s] = "push" /\ idx[s] < Len(visualizers)) => ENABLED CbPush(s))
    /\ \A s \in StreamId : (pcA[s] # "idle") ~> (pcA[s] = "idle")

\* C13 witness: a second callback has returned after pushing to a sink that
\* was full from its first block on and was never popped.
C13_Witness ==
    /\ \A s \in StreamId : pcA[s] = "idle"
    /\ blocks = 2
    /\ total_frames = 2 * buffer_size
    /\ ~escaped
    /\ \E v \in Range(visualizers) :
          cap[v] = 1 /\ Len(queue[v]) = 1 /\ queue[v][1].id = 1

\* C14: effects run in the order they were added: add_effect puts the new
\* effect at the tail, remove_effect takes one entry out and keeps the order
\* of the rest, list_effects has one entry per chain position, and the block
\* written to the output is the input transformed by the chain's effects in
\* chain order (B(A(block)) for the chain [A, B], B(block) for [B]).
C14_ChainOrder ==
    /\ [](\A s \in StreamId :
            pcA[s] = "push" =>
                /\ outdata[s].fx = Contributed(s)
                /\ (\A i \in 1..Len(calls[s]) : calls[s][i].en /\ calls[s][i].o = "ok")
                      => outdata[s].fx = snapshot[s])
    /\ [][/\ Len(list_effects') = Len(effects')
          /\ Len(effects') > Len(effects) =>
                /\ Len(list_effects') = Len(list_effects) + 1
                /\ SubSeq(effects', 1, Len(effects)) = effects
          /\ Len(effects') < Len(effects) =>
                /\ Len(list_effects') = Len(list_effects) - 1
                /\ \E e \in Range(effects) : effects' = RemoveFirst(effects, e)
          /\ Len(effects') = Len(effects) => effects' = effects]_vars

\* C14 witness: A and B were added in that order and both processed the
\* first block; A was then removed, and the second block goes to the output
\* transformed by B alone.
C14_Witness ==
    \E s \in StreamId :
        /\ pcA[s] = "push"
        /\ audio[s].id = 2
        /\ fxCalls["A"] = 1
        /\ fxCalls["B"] = 2
        /\ effects = <<"B">>
        /\ Len(list_effects) = 1
        /\ outdata[s].fx = <<"B">>

\* C15: remove_effect of an effect that is not in the chain raises nothing
\* and leaves the chain, and everything else, as it is.
C15_RemoveAbsentNoOp ==
    [][\A e \in FxId :
         (remove_effect(e) /\ e \notin Range(effects))
            => /\ effects' = effects
               /\ raised' = FALSE
               /\ UNCHANGED vars]_vars

\* C15 witness: A was in the chain, processed a block and has been removed;
\* the guard is free, so a second remove_effect(A) finds A absent, and it
\* leaves this very state.
C15_Witness ==
    /\ "A" \notin Range(effects)
    /\ effects = <<"B">>
    /\ fxCalls["A"] > 0
    /\ effect_lock = 0
    /\ ~raised

\* C16: a callback whose status reports any overflow or underflow adds one
\* to the underrun counter, a callback with no status flag adds nothing, and
\* the stream stays active with the block taken for processing.
C16_UnderrunCounted ==
    [][\A s \in StreamId :
         (pcA[s] = "idle" /\ pcA'[s] = "lock")
            => /\ underruns' = underruns + (IF status'[s] # {} THEN 1 ELSE 0)
               /\ streamState'[s] = "active"
               /\ escaped' = escaped
               /\ audio'[s].frames = buffer_size]_vars

\* Whether x lies in [lo, hi].
Within(x, lo, hi) == lo <= x /\ x <= hi

\* C17: every parameter of an effect object, and every value derived from a
\* parameter that its filters use (Delay's feedback coefficient, Reverb's
\* comb delay lengths and damping coefficients), corresponds to a value in
\* the variant's valid range, after any constructor call and any setters.
C17_ParametersInRange ==
    /\ fx.kind = "delay" =>
          /\ Within(fx.feedback, 0, 99) /\ Within(fx.wet, 0, Scale)
          /\ fx.delay_samples >= 1 => Within(-fx.a[fx.delay_samples + 1], 0, 99)
    /\ fx.kind = "reverb" =>
          /\ Within(fx.room_size, 0, Scale)
          /\ Within(fx.damping, 0, Scale)
          /\ Within(fx.wet, 0, Scale)
          /\ \A j \in 1..Len(base_delays) :
                Within(fx.comb_delays[j],
                       comb_delay(base_delays[j], 0), comb_delay(base_delays[j], Scale))
    /\ fx.kind = "distortion" =>
          /\ Within(fx.drive, Scale, 20 * Scale)
          /\ Within(fx.tone, 0, Scale)
          /\ Within(fx.level, 0, Scale)
    /\ fx.kind = "chorus" =>
          /\ Within(fx.rate, 10, 10 * Scale)
          /\ Within(fx.depth, 0, Scale)
          /\ Within(fx.wet, 0, Scale)

\* C18: no SimpleDelay object exists whose delay is not positive: a
\* constructor call with such a delay_ms raised instead of returning one.
C18_NonPositiveDelayRejected ==
    fx.kind = "delay" => fx.delay_samples >= 1

\* C19: whatever the variant, the input and the way it is cut into blocks,
\* the concatenated outputs of the block-wise calls equal the outputs of
\* processing the same input one frame at a time.
C19_BlockContinuity ==
    fx.kind \in {"delay", "reverb", "distortion", "chorus"} => out = twinOut

\* C20: two Reverb runs whose inputs differ only in the left channel return
\* the same right channel.
C20_StereoIndependent ==
    (fx.kind = "reverb" /\ Len(out) = 2) => out[2] = twinOut[2]

\* C27: once remove_effect(e) has taken e out of the chain, e is not in the
\* chain any more (so that no later callback reaches it), however the chain
\* was built.
C27_RemovedIsGone ==
    [][\A e \in FxId :
          (e \in Range(effects) /\ effects' = RemoveFirst(effects, e))
              => e \notin Range(effects')]_vars

\* Streams the binding holds open (opened and not closed).
OpenStreams == {s \in StreamId : streamState[s] \in {"open", "active"}}

\* C30: whatever the interleaving of start() and stop() calls, at most one
\* stream is open at any time; and whenever no call is in progress, running
\* is true exactly when a stream is open, and a stopped engine has closed
\* every stream it opened.
C30_OneStream ==
    /\ Cardinality(OpenStreams) <= 1
    /\ (\A t \in Ctl : pcC[t] = "idle" /\ ~escaped) =>
          /\ running <=> OpenStreams # {}
          /\ ~running => \A s \in StreamId : streamState[s] \in {"none", "closed"}

C25_QueriesReadOnly ==
    [][(result' # result) =>
          /\ UNCHANGED <<engineVars, metricVars, chainVars, sinkVars, pcC, stopDone,
                         raised, audioVars, benchVars>>
          /\ (result'.call = "get_effect") =>
                LET v == result'.value
                    matches == {i \in 1..Len(effects) : name[effects[i]] = result'.arg}
                IN  /\ matches = {} => v = None
                    /\ matches # {} =>
                          \E i \in matches :
                              /\ v = <<effects[i]>>
                              /\ \A j \in 1..(i - 1) : j \notin matches
          /\ (result'.call = "list_effects") =>
                LET v == result'.value
                IN  /\ Len(v) = Len(effects)
                    /\ \A i \in 1..Len(effects) :
                          /\ v[i][1] = name[effects[i]]
                          /\ (v[i][2] = "ON") <=> enabled[effects[i]]
                          /\ (v[i][2] = "OFF") <=> ~enabled[effects[i]]]_vars

\* get_effect has returned the first of two effects of the same name, the
\* chain holding [B, A].
C25_Witness ==
    /\ effects = <<"B", "A">>
    /\ result.call = "get_effect"
    /\ result.value = <<"B">>

\* C26: the guard is held by a callback only while it walks the chain, and
\* is free again before the callback writes its output or pushes to a sink;
\* a chain edit happens with the guard free before and after it and runs no
\* process and no push; the guard is only ever taken when it is free; and
\* with the callback scheduled fairly, a held guard is eventually released
\* and every callback waiting for it gets and releases it.
C26_GuardDiscipline ==
    /\ [](\A s \in StreamId :
            /\ (effect_lock = s) => (pcA[s] = "loop")
            /\ (pcA[s] \in {"out", "push"}) => (effect_lock # s))
    /\ [][/\ (effects' # effects) =>
                  /\ effect_lock = 0 /\ effect_lock' = 0
                  /\ fxCalls' = fxCalls /\ queue' = queue
          /\ (effect_lock' # effect_lock /\ effect_lock' # 0) => (effect_lock = 0)
          /\ \A s \in StreamId : PushStep(s) => effect_lock # s]_vars
    /\ (effect_lock # 0) ~> (effect_lock = 0)
    /\ \A s \in StreamId : (pcA[s] = "lock") ~> (pcA[s] = "out")

\* A callback has released the guard and pushed its block to the sink, on a
\* chain that add_effect changed, after a query returned.
C26_Witness ==
    /\ \E s \in StreamId :
          /\ pcA[s] = "push"
          /\ idx[s] = Len(visualizers)
          /\ Len(audio[s].fx) >= 1
    /\ effect_lock = 0
    /\ effects = <<"A", "B">>
    /\ result.call = "list_effects"

\* Every sample of the audio array.
SamplesOf(block) == {block[c][i] : c \in 1..Len(block), i \in 1..Frames(block)}

WetKinds == {"delay", "reverb", "chorus"}
InRange(block) == \A x \in SamplesOf(block) : -Scale <= x /\ x <= Scale

\* C22: a Delay, Reverb or Chorus whose wet is 0.0, whatever its filter
\* state, returns from process exactly the block it was given, for every
\* block inside [-1, 1].
C22_WetZeroIsDry ==
    (/\ last.op = "process"
     /\ last.before.kind \in WetKinds
     /\ last.before.wet = 0
     /\ InRange(last.block))
        => (~last.raises /\ last.y = last.block)

\* A direct process call on fx is made in this step.
ProcessStep == fed' # fed /\ last'.op = "process"

\* C28: on a Delay (of one delay sample or more) that has been disabled, a
\* direct process call returns the block it was given and leaves the filter
\* state as it was.
C28_DisabledProcessPassesThrough ==
    [][(ProcessStep /\ ~fx_enabled /\ fx.kind = "delay" /\ fx.delay_samples >= 1) =>
          (last'.y = last'.block /\ fx' = fx)]_vars

\* The Delay as it would be had the latest set_feedback rebuilt the filter:
\* the feedback coefficient a[D] is -self.feedback.
WithStoredFeedback(o) ==
    [o EXCEPT !.a = [i \in 1..Len(o.a) |->
                        IF i = o.delay_samples + 1 THEN -o.feedback ELSE o.a[i]]]

\* C29: every process call of a Delay runs its delay line with the feedback
\* gain the latest set_feedback stored, and no setter changes the delay in
\* samples or the length of the filter built at construction.
C29_SettersReachFilter ==
    /\ []((last.op = "process" /\ last.before.kind = "delay" /\ ~last.raises) =>
             last.y = SimpleDelay_process(WithStoredFeedback(last.before), last.block).y)
    /\ [][(fx.kind = "delay" /\ fx'.kind = "delay") =>
             /\ fx'.delay_samples = fx.delay_samples
             /\ Len(fx'.b) = Len(fx.b)
             /\ Len(fx'.a) = Len(fx.a)]_vars

\* f to the power k, in hundredths.
RECURSIVE Power(_, _)
Power(f, k) == IF k = 0 THEN Scale ELSE Mul(f, Power(f, k - 1))

\* What the claim gives for frame n (from 0) of the click's output.
Echo(o, n) ==
    IF n = 0 THEN Scale - o.wet
    ELSE IF n % o.delay_samples # 0 THEN 0
    ELSE Mul(o.wet, Power(o.feedback, (n \div o.delay_samples) - 1))

\* C23: a fresh Delay of D samples given a click returns 1 - w at frame 0,
\* zero at every frame that is no multiple of D, and w * f^(k-1) at frame
\* k * D, however the click is cut into blocks; and delay_ms = 200 at
\* 48000 Hz is D = 9600, with 0.5 at frame 0 and an echo of 0.5 > 0.2 for
\* f = w = 0.5.
C23_EchoPlacement ==
    /\ int(200 * sample_rate, 1000) = 9600
    /\ fx.kind = "delay" =>
          /\ \A c \in 1..Len(out) : \A i \in 1..fed : out[c][i] = Echo(fx, i - 1)
          /\ (fx.wet = 50 /\ fx.feedback = 50) =>
                /\ Echo(fx, 0) = 50
                /\ Echo(fx, fx.delay_samples) = 50
                /\ 5 * Echo(fx, fx.delay_samples) > Scale
                /\ \A n \in 1..(fx.delay_samples - 1) : 100 * Echo(fx, n) < Scale

\* The whole click has gone through a Delay of two samples with f = 0.9 and
\* w = 0.5, and the third echo has come back.
C23_Witness ==
    /\ fx.kind = "delay" /\ fx.delay_samples = 2
    /\ fx.feedback = 90 /\ fx.wet = 50
    /\ fed = EchoLen
    /\ out[1] = <<50, 0, 50, 0, 45, 0, 40>>
    /\ fx.zi_l # None

====
